---------------------------- MODULE Spec2Model ----------------------------
(***************************************************************************)
(* A model of tools/render-test/cuda/cuda-compute-util.cpp: the CUDA       *)
(* device selection (_calcSMCountPerMultiProcessor, _findMaxFlopsDeviceId),*)
(* the scoped device context (ScopeCUDAContext, canCreateDevice) and the   *)
(* compute pipeline (_compute, CUDAComputeUtil::execute).                  *)
(*                                                                         *)
(* The CUDA driver, the reflection data and the BindSet are the program's  *)
(* environment: what they report is drawn from small sets, and a driver    *)
(* call may fail wherever the code checks its result.                      *)
(***************************************************************************)
EXTENDS Integers, Sequences, FiniteSets, TLC

VARIABLES
    assertsEnabled, \* the build: TRUE when SLANG_ASSERT is compiled in (debug)
    devices,        \* the devices the driver enumerates, device id = index - 1
    out,            \* the outcome of the device-level call made, or op = "none"
    live,           \* the device contexts that are live (cuCtxCreate'd, not destroyed)
    cuInitRes,      \* _initCuda's static res: "none" until cuInit is called, then its result
    ctxCalls,       \* the cuInit, cuCtxCreate and cuCtxDestroy calls issued, in order
    initCount,      \* the init calls made on a ScopeCUDAContext used on its own
    entryPointCount,   \* reflection->getEntryPointCount()
    threadGroupSize,   \* entry point 0's getComputeThreadGroupSize
    hasKernel,         \* findKernelDescIndex(StageType::Compute) >= 0
    params,            \* the test layout: one entry, Value and binding per parameter
    pc,                \* where execute() is: "idle" before the call, "done" after
    result,            \* what execute() ended with: "none", "OK", "FAIL", "ASSERT", "CRASH"
    cudaContext,       \* execute()'s ScopeCUDAContext: its m_context, 0 for nullptr
    module,            \* the CUmodule loaded and not unloaded, 0 for none
    target,            \* per Value: m_target's m_cudaMemory, 0 for no CUDAResource
    devMem,            \* per device pointer: the bytes of the allocation
    freed,             \* the device pointers given to cudaFree
    hostData,          \* per Value: the bytes of m_data, << >> for no host data
    calls,             \* the driver calls issued by execute(), in order; of those of
                       \* cudaContext.init(0), the one that reported an error
    launches,          \* the cuLaunchKernel calls issued, with their arguments
    kernelRunning      \* a launched kernel has not completed yet

devVars == <<assertsEnabled, devices, out, live, cuInitRes, ctxCalls, initCount>>

inputVars == <<entryPointCount, threadGroupSize, hasKernel, params>>

memVars == <<target, devMem, freed, hostData, calls, launches, kernelRunning>>

exeVars == <<inputVars, pc, result, cudaContext, module, memVars>>

vars == <<devVars, exeVars>>

(***************************************************************************)
(* Bounds of the model.                                                    *)
(***************************************************************************)
MaxMajor == 9      \* compute capability majors 0..MaxMajor given to the table lookup
MaxMinor == 9      \* compute capability minors 0..MaxMinor given to the table lookup
MaxDevices == 2    \* at most this many devices are enumerated
MaxParams == 2     \* a test layout has 1..MaxParams parameters
MaxEntryPoints == 2   \* reflection reports 0..MaxEntryPoints entry points
MaxInits == 3      \* at most this many init calls are made on one ScopeCUDAContext

(***************************************************************************)
(* SLANG_CUDA_RETURN_ON_FAIL (line 24): a failed CUDA call asserts in a    *)
(* build with assertions and returns SLANG_FAIL otherwise.  A failed       *)
(* SLANG_ASSERT ends the call abnormally: status "ASSERT".                 *)
(***************************************************************************)
SLANG_CUDA_RETURN_ON_FAIL(asserts) == IF asserts THEN "ASSERT" ELSE "FAIL"

(***************************************************************************)
(* _calcSMCountPerMultiProcessor (lines 64-107).                           *)
(***************************************************************************)
infos ==
    << [sm |-> 48,  coreCount |-> 192],   \* 0x30
       [sm |-> 50,  coreCount |-> 192],   \* 0x32
       [sm |-> 53,  coreCount |-> 192],   \* 0x35
       [sm |-> 55,  coreCount |-> 192],   \* 0x37
       [sm |-> 80,  coreCount |-> 128],   \* 0x50
       [sm |-> 82,  coreCount |-> 128],   \* 0x52
       [sm |-> 83,  coreCount |-> 128],   \* 0x53
       [sm |-> 96,  coreCount |-> 64],    \* 0x60
       [sm |-> 97,  coreCount |-> 128],   \* 0x61
       [sm |-> 98,  coreCount |-> 128],   \* 0x62
       [sm |-> 112, coreCount |-> 64],    \* 0x70
       [sm |-> 114, coreCount |-> 64],    \* 0x72
       [sm |-> 117, coreCount |-> 64] >>  \* 0x75

\* const int sm = ((major << 4) + minor), line 91
smOf(major, minor) == major * 16 + minor

\* the loop of lines 92-98: the index of the first entry whose sm matches, or 0
RECURSIVE findInfo(_, _)
findInfo(i, sm) ==
    IF i > Len(infos) THEN 0
    ELSE IF infos[i].sm = sm THEN i
    ELSE findInfo(i + 1, sm)

\* SLANG_ASSERT(sm > last.coreCount), line 103: the condition asserted on the
\* fallback path (it compares the sm code with the last entry's core count)
fallbackAssert(sm) == sm > infos[Len(infos)].coreCount

\* a fallback that checks the sm code against the last entry's sm code instead
calcSM_assertAgainstLastSm(major, minor, asserts) ==
    LET sm == smOf(major, minor)
        i  == findInfo(1, sm)
    IN  IF i # 0 THEN [status |-> "OK", coreCount |-> infos[i].coreCount]
        ELSE IF asserts /\ ~(sm > infos[Len(infos)].sm)
             THEN [status |-> "ASSERT", coreCount |-> 0]
        ELSE [status |-> "OK", coreCount |-> infos[Len(infos)].coreCount]

calcSMCountPerMultiProcessor(major, minor, asserts) ==
    LET sm == smOf(major, minor)
        i  == findInfo(1, sm)
    IN  IF i # 0 THEN [status |-> "OK", coreCount |-> infos[i].coreCount]
        ELSE IF asserts /\ ~fallbackAssert(sm)
             THEN [status |-> "ASSERT", coreCount |-> 0]
        ELSE [status |-> "OK", coreCount |-> infos[Len(infos)].coreCount]


(***************************************************************************)
(* The driver as the code sees it.  A fault names the one driver call that *)
(* reports an error in a call of the program; NoFault: every call succeeds.*)
(***************************************************************************)
NoFault == [call |-> "none", dev |-> 0, attr |-> "none"]

Fault(c) == [call |-> c, dev |-> 0, attr |-> "none"]

AttrFault(d, a) == [call |-> "cudaDeviceGetAttribute", dev |-> d, attr |-> a]

attrFails(fault, d, a) == fault = AttrFault(d, a)

\* the attribute queries _findMaxFlopsDeviceId makes of device d (lines 123-125, 141-142)
queriesOf(d, dev) ==
    {AttrFault(d, a) : a \in {"ComputeMode", "Major", "Minor"}}
    \cup (IF dev.computeMode # "Prohibited"
          THEN {AttrFault(d, a) : a \in {"MultiProcessorCount", "ClockRate"}}
          ELSE {})

(***************************************************************************)
(* _findMaxFlopsDeviceId (lines 109-164).                                  *)
(***************************************************************************)
\* uint64_t compute_perf = uint64_t(multiProcessorCount) * smPerMultiproc * clockRate
\* (line 143); the products of the model stay far below 2^64, as a device's do
compute_perf(multiProcessorCount, smPerMultiproc, clockRate) ==
    multiProcessorCount * smPerMultiproc * clockRate

\* lines 131-138
smPerMultiprocOf(dev, asserts) ==
    IF dev.major = 9999 /\ dev.minor = 9999
    THEN [status |-> "OK", coreCount |-> 1]
    ELSE calcSMCountPerMultiProcessor(dev.major, dev.minor, asserts)

\* if (compute_perf > maxComputePerf), line 145
isBetter(perf, maxComputePerf) == perf > maxComputePerf

\* lines 157-163; error names the driver call that reported an error, if one did
findResult(maxPerfDevice) ==
    IF maxPerfDevice < 0
    THEN [status |-> "FAIL", device |-> -1, error |-> "none"]
    ELSE [status |-> "OK", device |-> maxPerfDevice, error |-> "none"]

\* the loop of lines 120-155, from device currentDevice on
RECURSIVE findLoop(_, _, _, _, _, _)
findLoop(devs, currentDevice, maxPerfDevice, maxComputePerf, fault, asserts) ==
    IF currentDevice >= Len(devs) THEN findResult(maxPerfDevice)
    ELSE
    LET dev == devs[currentDevice + 1]
        failed == [status |-> SLANG_CUDA_RETURN_ON_FAIL(asserts), device |-> -1,
                   error |-> "cudaDeviceGetAttribute"]
    IN  IF \E a \in {"ComputeMode", "Major", "Minor"} : attrFails(fault, currentDevice, a)
        THEN failed
        ELSE IF dev.computeMode # "Prohibited"
        THEN LET sm == smPerMultiprocOf(dev, asserts)
             IN  IF sm.status = "ASSERT"
                 THEN [status |-> "ASSERT", device |-> -1, error |-> "none"]
                 ELSE IF \E a \in {"MultiProcessorCount", "ClockRate"} :
                             attrFails(fault, currentDevice, a)
                 THEN failed
                 ELSE LET perf == compute_perf(dev.multiProcessorCount, sm.coreCount,
                                               dev.clockRate)
                      IN  IF isBetter(perf, maxComputePerf)
                          THEN findLoop(devs, currentDevice + 1, currentDevice, perf,
                                        fault, asserts)
                          ELSE findLoop(devs, currentDevice + 1, maxPerfDevice,
                                        maxComputePerf, fault, asserts)
        ELSE findLoop(devs, currentDevice + 1, maxPerfDevice, maxComputePerf,
                      fault, asserts)

findMaxFlopsDeviceId(devs, fault, asserts) ==
    IF fault = Fault("cudaGetDeviceCount")
    THEN [status |-> SLANG_CUDA_RETURN_ON_FAIL(asserts), device |-> -1,
          error |-> "cudaGetDeviceCount"]
    ELSE findLoop(devs, 0, -1, 0, fault, asserts)

(***************************************************************************)
(* _initCuda (lines 166-172) and ScopeCUDAContext (lines 174-225).         *)
(* A context is a positive number, nullptr is 0.                           *)
(***************************************************************************)
\* a driver call about a context, as recorded in ctxCalls
CtxCall(fn, ctx, ok) == [fn |-> fn, ctx |-> ctx, ok |-> ok]

initCuda(fault, asserts) ==
    IF fault = Fault("cuInit") THEN SLANG_CUDA_RETURN_ON_FAIL(asserts) ELSE "OK"

\* an _initCuda whose res is not static: cuInit is called every time
cuInitCalls_everyTime(res, fault) == <<CtxCall("cuInit", 0, fault # Fault("cuInit"))>>

\* static CUresult res = cuInit(0), line 168: cuInit is called by the first
\* _initCuda of the process only, and every later call reads its result
cuInitCalls(res, fault) ==
    IF res = "none" THEN <<CtxCall("cuInit", 0, fault # Fault("cuInit"))>> ELSE << >>

cuInitAfter(res, fault) ==
    IF res # "none" THEN res ELSE IF fault = Fault("cuInit") THEN "ERR" ELSE "OK"

\* the faults of a call that agree with the result cuInit already gave
faultsWith(faults, res) ==
    IF res = "OK" THEN faults \ {Fault("cuInit")}
    ELSE IF res = "ERR" THEN {Fault("cuInit")}
    ELSE faults

newContext(liveSet) == CHOOSE c \in 1..(Cardinality(liveSet) + 1) : c \notin liveSet

\* if (m_context) cuCtxDestroy(m_context), lines 183-187, 203-207 and 217-220
dtorCalls(m_context) ==
    IF m_context # 0 THEN <<CtxCall("cuCtxDestroy", m_context, TRUE)>> ELSE << >>

\* lines 183-192 and 203-212: destroy the context held, then create one
recreate(m_context, liveSet, fault, device) ==
    LET kept == liveSet \ {m_context}
    IN  IF fault = Fault("cuCtxCreate")
        THEN [status |-> "FAIL", m_context |-> 0, live |-> kept, device |-> device,
              error |-> "cuCtxCreate",
              ctxCalls |-> dtorCalls(m_context) \o <<CtxCall("cuCtxCreate", 0, FALSE)>>]
        ELSE [status |-> "OK", m_context |-> newContext(kept),
              live |-> kept \cup {newContext(kept)}, device |-> device,
              error |-> "none",
              ctxCalls |-> dtorCalls(m_context)
                           \o <<CtxCall("cuCtxCreate", newContext(kept), TRUE)>>]

\* SlangResult init(unsigned int flags, CUdevice device), lines 179-193
ScopeCUDAContext_initDevice(m_context, liveSet, device, fault, asserts) ==
    IF initCuda(fault, asserts) # "OK"
    THEN [status |-> initCuda(fault, asserts), m_context |-> m_context, live |-> liveSet,
          device |-> -1, error |-> "cuInit", ctxCalls |-> << >>]
    ELSE recreate(m_context, liveSet, fault, device)

\* SlangResult init(unsigned int flags), lines 195-213
ScopeCUDAContext_init(m_context, liveSet, devs, fault, asserts) ==
    LET stop(s, e) == [status |-> s, m_context |-> m_context, live |-> liveSet,
                       device |-> -1, error |-> e, ctxCalls |-> << >>]
        found == findMaxFlopsDeviceId(devs, fault, asserts)
    IN  IF initCuda(fault, asserts) # "OK" THEN stop(initCuda(fault, asserts), "cuInit")
        ELSE IF found.status # "OK" THEN stop(found.status, found.error)
        ELSE IF fault = Fault("cudaSetDevice")
        THEN stop(SLANG_CUDA_RETURN_ON_FAIL(asserts), "cudaSetDevice")
        ELSE recreate(m_context, liveSet, fault, found.device)

\* a destructor that leaves the context alone
ScopeCUDAContext_dtor_leak(m_context, liveSet) == liveSet

\* ~ScopeCUDAContext(), lines 215-221
ScopeCUDAContext_dtor(m_context, liveSet) == liveSet \ {m_context}

(***************************************************************************)
(* The devices the driver may enumerate.                                   *)
(***************************************************************************)
Capabilities == {<<3, 0>>, <<7, 5>>, <<2, 0>>, <<9999, 9999>>}
MultiProcessorCounts == {0, 1, 3}
ClockRates == {1, 2}

Device(mode, cap, mp, clock) ==
    [computeMode |-> mode, major |-> cap[1], minor |-> cap[2],
     multiProcessorCount |-> mp, clockRate |-> clock]

\* a device in prohibited compute mode: what else it reports is never used
ProhibitedDevice == Device("Prohibited", <<3, 0>>, 3, 2)

DeviceConfigs ==
    {Device("Default", cap, mp, clock) :
        cap \in Capabilities, mp \in MultiProcessorCounts, clock \in ClockRates}
    \cup {ProhibitedDevice}

DeviceLists == UNION {[1..n -> DeviceConfigs] : n \in 0..MaxDevices}

\* the driver calls of _findMaxFlopsDeviceId that may fail
selectFaults(devs) ==
    {NoFault, Fault("cudaGetDeviceCount")}
    \cup UNION {queriesOf(d, devs[d + 1]) : d \in 0..(Len(devs) - 1)}

\* the driver calls of ScopeCUDAContext::init(flags) that may fail
initFaults(devs) ==
    selectFaults(devs) \cup {Fault("cuInit"), Fault("cudaSetDevice"), Fault("cuCtxCreate")}

(***************************************************************************)
(* The device-level calls.                                                 *)
(***************************************************************************)
\* no execute() call is made: its state is empty
ExecIdle ==
    /\ entryPointCount = 1
    /\ threadGroupSize = <<1, 1, 1>>
    /\ hasKernel = TRUE
    /\ params = << >>
    /\ pc = "idle"
    /\ result = "none"
    /\ cudaContext = 0
    /\ module = 0
    /\ target = << >>
    /\ devMem = << >>
    /\ freed = {}
    /\ hostData = << >>
    /\ calls = << >>
    /\ launches = << >>
    /\ kernelRunning = FALSE

NoCall == [op |-> "none", status |-> "none", device |-> -1, coreCount |-> 0,
           ret |-> FALSE, fault |-> NoFault]

\* one call of _calcSMCountPerMultiProcessor with the capability of device 0
CallCalcSM ==
    /\ out.op = "none"
    /\ Len(devices) = 1
    /\ LET r == calcSMCountPerMultiProcessor(devices[1].major, devices[1].minor,
                                             assertsEnabled)
       IN  out' = [NoCall EXCEPT !.op = "calcSM", !.status = r.status,
                                 !.coreCount = r.coreCount]
    /\ UNCHANGED <<assertsEnabled, devices, live, cuInitRes, ctxCalls, initCount, exeVars>>

\* one call of _findMaxFlopsDeviceId (the spec's selectBestDevice)
SelectBestDevice ==
    /\ out.op = "none"
    /\ \E fault \in selectFaults(devices) :
         LET r == findMaxFlopsDeviceId(devices, fault, assertsEnabled)
         IN  out' = [NoCall EXCEPT !.op = "select", !.status = r.status,
                                   !.device = r.device, !.fault = fault]
    /\ UNCHANGED <<assertsEnabled, devices, live, cuInitRes, ctxCalls, initCount, exeVars>>

\* CUDAComputeUtil::canCreateDevice (lines 227-231): init(0) on a fresh
\* ScopeCUDAContext, whose destructor runs when the call returns
canCreateDevice(liveSet, devs, fault, asserts) ==
    LET r == ScopeCUDAContext_init(0, liveSet, devs, fault, asserts)
    IN  IF r.status = "ASSERT"
        THEN [status |-> "ASSERT", ret |-> FALSE, live |-> r.live, device |-> -1,
              ctxCalls |-> r.ctxCalls]
        ELSE [status |-> r.status, ret |-> (r.status = "OK"),
              live |-> ScopeCUDAContext_dtor(r.m_context, r.live),
              device |-> r.device,
              ctxCalls |-> r.ctxCalls \o dtorCalls(r.m_context)]

CanCreateDevice ==
    /\ out.op = "none"
    /\ \E fault \in faultsWith(initFaults(devices), cuInitRes) :
         LET r == canCreateDevice(live, devices, fault, assertsEnabled)
         IN  /\ out' = [NoCall EXCEPT !.op = "probe", !.status = r.status,
                                      !.device = r.device, !.ret = r.ret,
                                      !.fault = fault]
             /\ live' = r.live
             /\ cuInitRes' = cuInitAfter(cuInitRes, fault)
             /\ ctxCalls' = ctxCalls \o cuInitCalls(cuInitRes, fault) \o r.ctxCalls
    /\ UNCHANGED <<assertsEnabled, devices, initCount, exeVars>>

InitSM ==
    /\ assertsEnabled \in BOOLEAN
    /\ \E major \in 0..MaxMajor, minor \in 0..MaxMinor :
         devices = <<Device("Default", <<major, minor>>, 1, 1)>>
    /\ out = NoCall
    /\ live = {}
    /\ cuInitRes = "none"
    /\ ctxCalls = << >>
    /\ initCount = 0
    /\ ExecIdle

InitDev ==
    /\ assertsEnabled \in BOOLEAN
    /\ devices \in DeviceLists
    /\ out = NoCall
    /\ live = {}
    /\ cuInitRes = "none"
    /\ ctxCalls = << >>
    /\ initCount = 0
    /\ ExecIdle

NextDev == SelectBestDevice \/ CanCreateDevice

SpecSM == InitSM /\ [][CallCalcSM]_vars

SpecDev == InitDev /\ [][NextDev]_vars


(***************************************************************************)
(* Device selection: the claims.                                           *)
(***************************************************************************)
\* the ids of the enumerated devices that are not in prohibited compute mode
nonProhibited == {d \in 0..(Len(devices) - 1) : devices[d + 1].computeMode # "Prohibited"}

\* the capability of a device is one of the 13 entries of the table
inTable(major, minor) == \E i \in 1..Len(infos) : infos[i].sm = major * 16 + minor

lastCoreCount == infos[Len(infos)].coreCount

\* the score the spec gives a device: multiprocessorCount * coresPerSM * clockRate,
\* coresPerSM the table's entry, or its last entry for a capability not in it
specScore(d) ==
    LET dev == devices[d + 1]
        cores == IF \E i \in 1..Len(infos) : infos[i].sm = dev.major * 16 + dev.minor
                 THEN infos[CHOOSE i \in 1..Len(infos) :
                                infos[i].sm = dev.major * 16 + dev.minor].coreCount
                 ELSE lastCoreCount
    IN  dev.multiProcessorCount * cores * dev.clockRate

\* C2: with N >= 1 non-prohibited devices and every attribute query succeeding,
\* selectBestDevice returns the index of a non-prohibited device whose score is
\* maximal among the non-prohibited devices, the lowest-indexed one on a tie.
C2_ArgMaxFirst ==
    (out.op = "select" /\ out.fault = NoFault /\ nonProhibited # {})
    => /\ out.status = "OK"
       /\ out.device \in nonProhibited
       /\ \A e \in nonProhibited : specScore(e) <= specScore(out.device)
       /\ \A e \in nonProhibited :
            specScore(e) = specScore(out.device) => out.device <= e

C4_ProbeNeverAsserts ==
    (out.op = "probe" /\ nonProhibited = {})
    => (out.status = "FAIL" /\ out.ret = FALSE /\ live = {})

\* the driver calls canCreateDevice reaches when no device is eligible
reachedWithoutDevice == {"cuInit", "cudaGetDeviceCount", "cudaDeviceGetAttribute"}

\* what the code does do with zero eligible devices: canCreateDevice leaves no
\* context live, and it returns false as an ordinary value unless cuInit, the
\* device count query or an attribute query reports an error in a build with
\* assertions, where the assertion of SLANG_CUDA_RETURN_ON_FAIL fires instead
ProbeFalseUnlessDriverError ==
    (out.op = "probe" /\ nonProhibited = {})
    => /\ live = {}
       /\ IF assertsEnabled /\ out.fault.call \in reachedWithoutDevice
          THEN out.status = "ASSERT"
          ELSE out.status = "FAIL" /\ out.ret = FALSE

\* C5: selectBestDevice never returns a prohibited device, fails when every
\* device is prohibited or none is enumerated, and succeeds whenever a device is
\* not prohibited and every attribute query succeeds, whatever its
\* multiprocessor count, core count and clock rate are.
C5_SucceedsIffEligible ==
    out.op = "select"
    => /\ out.status = "OK" => out.device \in nonProhibited
       /\ nonProhibited = {} => out.status = "FAIL"
       /\ (nonProhibited # {} /\ out.fault = NoFault) => out.status = "OK"


(***************************************************************************)
(* execute(): what it is given.  The BindSet holds the root Value (the     *)
(* global parameter block, 8 bytes per parameter), the entry point's Value *)
(* and one Value per parameter of the test layout; a Value without a type  *)
(* layout has hasType = FALSE.  Parameter i has the binding location at    *)
(* offset 8*(i-1) of the root block and the test layout entry i.           *)
(***************************************************************************)
Value(hasType, kind, shape, size, hasData) ==
    [hasType |-> hasType, kind |-> kind, shape |-> shape, sizeInBytes |-> size,
     hasData |-> hasData]

\* a parameter: its Value has a type layout and is the Value of its binding
\* location, which has a slot in the root block
Param(kind, shape, size, hasData, isOutput) ==
    [kind |-> kind, shape |-> shape, sizeInBytes |-> size, hasData |-> hasData,
     isOutput |-> isOutput, typed |-> TRUE, elementCount |-> 0, hasSlot |-> TRUE,
     bound |-> TRUE, nested |-> FALSE]

\* a parameter that is a field of the first parameter's block: the slot of its
\* binding location lies in the host data of that block's Value
Nested(param) == [param EXCEPT !.nested = TRUE]

\* an array parameter of elementCount elements (0: unsized); typed: its Value has
\* a type layout; hasSlot: location.getUniform<void*>() is not null; bound: the
\* location has a Value
ArrayParam(elementCount, typed, hasSlot, bound) ==
    [Param("Array", "none", 4, TRUE, FALSE) EXCEPT
        !.elementCount = elementCount, !.typed = typed, !.hasSlot = hasSlot,
        !.bound = bound]

\* a parameter whose binding location has no Value
Unbound(param) == [param EXCEPT !.bound = FALSE]

TextureShapes ==
    {"SLANG_TEXTURE_1D", "SLANG_TEXTURE_2D", "SLANG_TEXTURE_3D", "SLANG_TEXTURE_CUBE",
     "SLANG_TEXTURE_BUFFER"}

BufferShapes == {"SLANG_BYTE_ADDRESS_BUFFER", "SLANG_STRUCTURED_BUFFER"}

\* the parameters a test layout is made of
ParamKinds ==
    {Param("ConstantBuffer", "none", 4, TRUE, FALSE),
     Param("ParameterBlock", "none", 4, TRUE, FALSE),
     Param("Struct", "none", 4, TRUE, FALSE),
     Param("Resource", "SLANG_STRUCTURED_BUFFER", 32, TRUE, FALSE),
     Param("Resource", "SLANG_STRUCTURED_BUFFER", 32, TRUE, TRUE),
     Param("Resource", "SLANG_BYTE_ADDRESS_BUFFER", 4, TRUE, TRUE),
     Param("Resource", "SLANG_BYTE_ADDRESS_BUFFER", 4, FALSE, TRUE),
     Param("Resource", "SLANG_TEXTURE_2D", 4, TRUE, TRUE)}
    \cup {Param("Resource", shape, 4, TRUE, FALSE) :
            shape \in TextureShapes \ {"SLANG_TEXTURE_2D"}}

Layouts == UNION {[1..n -> ParamKinds] : n \in 1..MaxParams}

\* the parameters that tell the cases of the binding loop apart
BindKinds ==
    {Param("ConstantBuffer", "none", 4, TRUE, FALSE),
     Unbound(Param("ParameterBlock", "none", 4, TRUE, FALSE)),
     Param("Resource", "SLANG_STRUCTURED_BUFFER", 4, TRUE, TRUE),
     Unbound(Param("Resource", "SLANG_BYTE_ADDRESS_BUFFER", 4, TRUE, FALSE)),
     Param("Resource", "SLANG_TEXTURE_2D", 4, TRUE, FALSE),
     Param("Vector", "none", 4, TRUE, FALSE),
     ArrayParam(0, FALSE, TRUE, TRUE),
     ArrayParam(0, TRUE, TRUE, TRUE),
     ArrayParam(0, FALSE, FALSE, TRUE),
     ArrayParam(0, FALSE, TRUE, FALSE),
     ArrayParam(4, FALSE, TRUE, TRUE),
     Param("ParameterBlock", "none", 8, TRUE, FALSE),
     Nested(Param("Resource", "SLANG_STRUCTURED_BUFFER", 4, TRUE, TRUE))}

BindLayouts == UNION {[1..n -> BindKinds] : n \in 1..MaxParams}

ThreadGroupSizes == {<<8, 1, 1>>, <<1, 2, 3>>}

\* bindRoot.getRootValue(), bindRoot.getEntryPointValue()
rootValue == 1
entryPointValue == 2

\* bindSet.getValues()
valuesOf(ps) ==
    <<Value(FALSE, "none", "none", 8 * Len(ps), TRUE),
      Value(FALSE, "none", "none", 8, TRUE)>>
    \o [i \in 1..Len(ps) |->
          Value(ps[i].typed, ps[i].kind, ps[i].shape, ps[i].sizeInBytes, ps[i].hasData)]

\* parameter i is a field of the block of parameter 1, which has room for it:
\* the fields lie one after the other, 8 bytes each
nestedIn(ps, i) ==
    /\ ps[i].nested
    /\ i > 1
    /\ ps[1].kind \in {"ConstantBuffer", "ParameterBlock"}
    /\ ~ps[1].nested
    /\ ps[1].hasData
    /\ ps[1].sizeInBytes >= 8 * (i - 1)

\* bindSet.getBindings(locations, values): the locations, with the Value of each;
\* holder and offset say where location.getUniform<void*>() points
bindingsOf(ps) ==
    [i \in 1..Len(ps) |->
        [kind |-> ps[i].kind, shape |-> ps[i].shape, elementCount |-> ps[i].elementCount,
         hasSlot |-> ps[i].hasSlot,
         holder |-> IF nestedIn(ps, i) THEN 3 ELSE rootValue,
         offset |-> IF nestedIn(ps, i) THEN 8 * (i - 2) ELSE 8 * (i - 1),
         value |-> IF ps[i].bound THEN i + 2 ELSE 0]]

\* outputAndLayout.layout.entries with outContext.m_buffers
entriesOf(ps) == [i \in 1..Len(ps) |-> [isOutput |-> ps[i].isOutput, buffer |-> i + 2]]

\* the host data the test gives: 0, 1, 2, ... for an input, zeroes for an
\* output, and what the upstream layout step left in the parameter blocks
iota(n) == [i \in 1..n |-> i - 1]
fill(n, b) == [i \in 1..n |-> b]

hostDataOf(ps) ==
    <<fill(8 * Len(ps), 170), fill(8, 1)>>
    \o [i \in 1..Len(ps) |->
          IF ~ps[i].hasData THEN << >>
          ELSE IF ps[i].isOutput THEN fill(ps[i].sizeInBytes, 0)
          ELSE iota(ps[i].sizeInBytes)]

\* what freshly allocated device memory may hold
GarbageBytes == {0, 255}

(***************************************************************************)
(* The driver calls execute() issues, as recorded in calls.                *)
(***************************************************************************)
Call(fn, value, ptr, size, ok) ==
    [fn |-> fn, value |-> value, ptr |-> ptr, size |-> size, ok |-> ok]

\* CUDAResource::getCUDAData (lines 48-56); v = 0 is a null Value
getCUDAData(v, tgt) == IF v # 0 THEN tgt[v] ELSE 0

\* cudaMemcpy(dst, src, count, kind): the first count bytes of dst become src's
memcpy(dst, src, count) ==
    [i \in 1..Len(dst) |-> IF i <= count THEN src[i] ELSE dst[i]]

(***************************************************************************)
(* _compute, the allocation loop (lines 277-356).                          *)
(***************************************************************************)
\* line 282
kindOf(value) == IF value.hasType THEN value.kind ELSE "ConstantBuffer"

\* an allocation loop that gives a 2D texture device memory as well
allocates_texture2D(value) ==
    \/ (IF value.hasType THEN value.kind ELSE "ConstantBuffer")
         \in {"ConstantBuffer", "ParameterBlock"}
    \/ value.hasType /\ value.kind = "Resource"
       /\ value.shape \in {"SLANG_BYTE_ADDRESS_BUFFER", "SLANG_STRUCTURED_BUFFER",
                            "SLANG_TEXTURE_2D"}

\* the cases of the switch that call cudaMalloc (lines 290-299, 341-351)
allocates(value) ==
    \/ kindOf(value) \in {"ConstantBuffer", "ParameterBlock"}
    \/ kindOf(value) = "Resource" /\ value.shape \in BufferShapes

\* an allocation of the size of a pointer instead of the Value's size
mallocSize_ofPointer(value) == 8

\* cudaMalloc(&cudaMem, value->m_sizeInBytes), lines 296 and 347
mallocSize(value) == value.sizeInBytes

\* from Value v on; failAt is the Value whose cudaMalloc fails, 0 for none
RECURSIVE allocLoop(_, _, _, _, _, _, _, _)
allocLoop(values, v, tgt, mem, log, failAt, garbage, asserts) ==
    IF v > Len(values) THEN [status |-> "OK", target |-> tgt, devMem |-> mem, calls |-> log]
    ELSE IF ~allocates(values[v])
    THEN allocLoop(values, v + 1, tgt, mem, log, failAt, garbage, asserts)
    ELSE IF v = failAt
    THEN [status |-> SLANG_CUDA_RETURN_ON_FAIL(asserts), target |-> tgt, devMem |-> mem,
          calls |-> Append(log, Call("cudaMalloc", v, 0, mallocSize(values[v]), FALSE))]
    ELSE LET cudaMem == Len(mem) + 1
         IN  allocLoop(values, v + 1, [tgt EXCEPT ![v] = cudaMem],
                       Append(mem, fill(mallocSize(values[v]), garbage)),
                       Append(log, Call("cudaMalloc", v, cudaMem,
                                        mallocSize(values[v]), TRUE)),
                       failAt, garbage, asserts)

(***************************************************************************)
(* _compute, the binding loop (lines 361-422).                             *)
(***************************************************************************)
\* a device pointer as the 8 bytes of a void*
pointerBytes(ptr) == <<ptr, 0, 0, 0, 0, 0, 0, 0>>

\* a write that goes to the first 8 bytes of the block whatever the offset
writeSlot_firstSlot(host, loc, ptr) ==
    [host EXCEPT ![loc.holder] =
        [i \in 1..Len(host[loc.holder]) |->
            IF i <= 8 THEN <<ptr, 0, 0, 0, 0, 0, 0, 0>>[i] ELSE host[loc.holder][i]]]

\* *location.getUniform<void*>() = ptr
writeSlot(host, loc, ptr) ==
    [host EXCEPT ![loc.holder] =
        [i \in 1..Len(host[loc.holder]) |->
            IF i > loc.offset /\ i <= loc.offset + 8
            THEN pointerBytes(ptr)[i - loc.offset]
            ELSE host[loc.holder][i]]]

\* a binding loop without the case of the unsized array
writesSlot_noArray(loc) ==
    \/ loc.kind \in {"ConstantBuffer", "ParameterBlock"}
    \/ loc.kind = "Resource" /\ loc.shape \in BufferShapes

\* a binding loop that writes the slot of every location
writesSlot_everyKind(loc) == TRUE

\* the cases of the switch that write the slot (lines 375-420)
writesSlot(loc) ==
    \/ loc.kind = "Array" /\ loc.elementCount = 0 /\ loc.value # 0 /\ loc.hasSlot
    \/ loc.kind \in {"ConstantBuffer", "ParameterBlock"}
    \/ loc.kind = "Resource" /\ loc.shape \in BufferShapes

RECURSIVE bindLoop(_, _, _, _, _)
bindLoop(locations, i, host, tgt, log) ==
    IF i > Len(locations) THEN [hostData |-> host, calls |-> log]
    ELSE IF writesSlot(locations[i])
    THEN bindLoop(locations, i + 1,
                  writeSlot(host, locations[i], getCUDAData(locations[i].value, tgt)), tgt,
                  Append(log, Call("bind", locations[i].value,
                                   getCUDAData(locations[i].value, tgt), 8, TRUE)))
    ELSE bindLoop(locations, i + 1, host, tgt, log)

(***************************************************************************)
(* _compute, the upload loop (lines 425-436).                              *)
(***************************************************************************)
\* an upload loop that leaves the root Value out
uploads_notRoot(values, v, tgt) ==
    v # 1 /\ values[v].hasData /\ (IF v # 0 THEN tgt[v] ELSE 0) # 0

\* if (value && value->m_data && cudaMem), line 430
uploads(values, v, tgt) == values[v].hasData /\ getCUDAData(v, tgt) # 0

\* an upload of the size of a pointer instead of the Value's size
uploadSize_ofPointer(value) == 8

\* the count of the cudaMemcpy of line 433
uploadSize(value) == value.sizeInBytes

RECURSIVE uploadLoop(_, _, _, _, _, _, _, _)
uploadLoop(values, v, host, tgt, mem, log, failAt, asserts) ==
    IF v > Len(values) THEN [status |-> "OK", devMem |-> mem, calls |-> log]
    ELSE IF ~uploads(values, v, tgt)
    THEN uploadLoop(values, v + 1, host, tgt, mem, log, failAt, asserts)
    ELSE IF v = failAt
    THEN [status |-> SLANG_CUDA_RETURN_ON_FAIL(asserts), devMem |-> mem,
          calls |-> Append(log, Call("cudaMemcpyHostToDevice", v, tgt[v],
                                     uploadSize(values[v]), FALSE))]
    ELSE uploadLoop(values, v + 1, host, tgt,
                    [mem EXCEPT ![tgt[v]] = memcpy(mem[tgt[v]], host[v],
                                                   uploadSize(values[v]))],
                    Append(log, Call("cudaMemcpyHostToDevice", v, tgt[v],
                                     uploadSize(values[v]), TRUE)),
                    failAt, asserts)

(***************************************************************************)
(* _compute, the launch (lines 440-482).                                   *)
(***************************************************************************)
\* cudaStream_t stream = 0, line 254: no stream
stream == 0

\* int(numThreadsPerAxis[i]), line 465: a SlangUInt converted to int
toInt(n) == IF n <= 2147483647 THEN n ELSE n - 2147483647 - 2147483647 - 2

\* a launch whose two arguments are in the other order
launchOf_swappedArgs(tgs, tgt, ok) ==
    [gridDim |-> <<1, 1, 1>>,
     blockDim |-> <<toInt(tgs[1]), toInt(tgs[2]), toInt(tgs[3])>>,
     sharedMemBytes |-> 0,
     hStream |-> stream,
     args |-> <<getCUDAData(rootValue, tgt), getCUDAData(entryPointValue, tgt)>>,
     ok |-> ok]

\* the arguments of cuLaunchKernel, lines 450-469
launchOf(tgs, tgt, ok) ==
    LET uniformCUDAData == getCUDAData(rootValue, tgt)
        entryPointCUDAData == getCUDAData(entryPointValue, tgt)
    IN  [gridDim |-> <<1, 1, 1>>,
         blockDim |-> <<toInt(tgs[1]), toInt(tgs[2]), toInt(tgs[3])>>,
         sharedMemBytes |-> 0,
         hStream |-> stream,
         args |-> <<entryPointCUDAData, uniformCUDAData>>,
         ok |-> ok]

\* the wait of lines 473-481
syncCall(hStream) ==
    IF hStream # 0 THEN "cudaStreamSynchronize" ELSE "cudaDeviceSynchronize"

(***************************************************************************)
(* The kernel of the tests: with two parameters or more it copies the      *)
(* buffer of parameter 1 to the buffer of parameter 2, one 32-bit element  *)
(* per thread; it finds both through the pointers of the global parameter  *)
(* block it is given as its second argument.                               *)
(***************************************************************************)
\* the device pointer held in the 8 bytes from offset on, 0 when it is none
pointerAt(block, offset, mem) ==
    IF /\ Len(block) >= offset + 8
       /\ block[offset + 1] \in 1..Len(mem)
       /\ \A i \in 2..8 : block[offset + i] = 0
    THEN block[offset + 1]
    ELSE 0

copyKernel(launch, mem) ==
    LET uniform == launch.args[2]
        block == IF uniform \in 1..Len(mem) THEN mem[uniform] ELSE << >>
        src == pointerAt(block, 0, mem)
        dst == pointerAt(block, 8, mem)
        threads == launch.gridDim[1] * launch.gridDim[2] * launch.gridDim[3]
                   * launch.blockDim[1] * launch.blockDim[2] * launch.blockDim[3]
    IN  IF src = 0 \/ dst = 0 THEN mem
        ELSE [mem EXCEPT ![dst] =
                [i \in 1..Len(mem[dst]) |->
                    IF i <= 4 * threads /\ i <= Len(mem[src])
                    THEN mem[src][i]
                    ELSE mem[dst][i]]]

(***************************************************************************)
(* _compute, the download loop (lines 486-505).                            *)
(***************************************************************************)
\* entry.isOutput and value && value->m_data && cudaMem, lines 494-498
downloads(values, entry, tgt) ==
    /\ entry.isOutput
    /\ entry.buffer # 0
    /\ values[entry.buffer].hasData
    /\ getCUDAData(entry.buffer, tgt) # 0

\* a download that leaves the last byte out
downloadSize_oneLess(value) == value.sizeInBytes - 1

\* the count of the cudaMemcpy of line 501
downloadSize(value) == value.sizeInBytes

RECURSIVE downloadLoop(_, _, _, _, _, _, _, _, _)
downloadLoop(values, entries, i, host, tgt, mem, log, failAt, asserts) ==
    IF i > Len(entries) THEN [status |-> "OK", hostData |-> host, calls |-> log]
    ELSE IF ~downloads(values, entries[i], tgt)
    THEN downloadLoop(values, entries, i + 1, host, tgt, mem, log, failAt, asserts)
    ELSE LET v == entries[i].buffer
         IN  IF i = failAt
             THEN [status |-> SLANG_CUDA_RETURN_ON_FAIL(asserts), hostData |-> host,
                   calls |-> Append(log, Call("cudaMemcpyDeviceToHost", v, tgt[v],
                                              downloadSize(values[v]), FALSE))]
             ELSE downloadLoop(values, entries, i + 1,
                     [host EXCEPT ![v] = memcpy(host[v], mem[tgt[v]],
                                                downloadSize(values[v]))],
                     tgt, mem,
                     Append(log, Call("cudaMemcpyDeviceToHost", v, tgt[v],
                                      downloadSize(values[v]), TRUE)),
                     failAt, asserts)

(***************************************************************************)
(* bindSet.releaseValueTargets() (line 514): every Value drops its target, *)
(* and ~CUDAResource (lines 39-45) frees the memory of each.  A failed     *)
(* cudaFree only asserts (SLANG_CUDA_ASSERT_ON_FAIL, line 28).             *)
(***************************************************************************)
\* a release that leaves every Value its target
releaseLoop_keepsTargets(v, tgt, gone, log, failAt, asserts) ==
    [status |-> "OK", target |-> tgt, freed |-> gone, calls |-> log]

RECURSIVE releaseLoop(_, _, _, _, _, _)
releaseLoop(v, tgt, gone, log, failAt, asserts) ==
    IF v > Len(tgt) THEN [status |-> "OK", target |-> tgt, freed |-> gone, calls |-> log]
    ELSE IF tgt[v] = 0 THEN releaseLoop(v + 1, tgt, gone, log, failAt, asserts)
    ELSE IF v = failAt /\ asserts
    THEN [status |-> "ASSERT", target |-> [tgt EXCEPT ![v] = 0], freed |-> gone,
          calls |-> Append(log, Call("cudaFree", v, tgt[v], 0, FALSE))]
    ELSE releaseLoop(v + 1, [tgt EXCEPT ![v] = 0],
                     IF v = failAt THEN gone ELSE gone \cup {tgt[v]},
                     Append(log, Call("cudaFree", v, tgt[v], 0, v # failAt)),
                     failAt, asserts)

(***************************************************************************)
(* CUDAComputeUtil::execute (lines 519-540) and _compute (lines 233-517),  *)
(* one action per stage.  A stage that fails ends the call.                *)
(***************************************************************************)
\* the call goes on with the next stage
Continue(next) ==
    /\ pc' = next
    /\ UNCHANGED <<result, live, cudaContext, ctxCalls>>

\* the call ends: a return runs ~ScopeCUDAContext on cudaContext (line 521);
\* a failed assertion or a crash ends it where it stands
Finish(status) ==
    /\ pc' = "done"
    /\ result' = status
    /\ IF status \in {"ASSERT", "CRASH"}
       THEN UNCHANGED <<live, cudaContext, ctxCalls>>
       ELSE /\ live' = ScopeCUDAContext_dtor(cudaContext, live)
            /\ ctxCalls' = ctxCalls \o dtorCalls(cudaContext)
            /\ cudaContext' = 0

\* a call that goes on with the next stage whatever the status
Step_goesOn(status, next) == Continue(next)

Step(status, next) == IF status = "OK" THEN Continue(next) ELSE Finish(status)

\* cudaContext.init(0), line 522
ExecInit ==
    /\ pc = "idle"
    /\ \E fault \in faultsWith(initFaults(devices), cuInitRes) :
         LET r == ScopeCUDAContext_init(cudaContext, live, devices, fault, assertsEnabled)
             issued == ctxCalls \o cuInitCalls(cuInitRes, fault) \o r.ctxCalls
         IN  /\ cuInitRes' = cuInitAfter(cuInitRes, fault)
             /\ calls' = IF r.error = "none" THEN calls
                         ELSE Append(calls, Call(r.error, 0, 0, 0, FALSE))
             /\ IF r.status = "OK"
                THEN /\ pc' = "load"
                     /\ cudaContext' = r.m_context
                     /\ live' = r.live
                     /\ ctxCalls' = issued
                     /\ UNCHANGED result
                ELSE /\ pc' = "done"
                     /\ result' = r.status
                     /\ live' = IF r.status = "ASSERT" THEN r.live
                                ELSE ScopeCUDAContext_dtor(r.m_context, r.live)
                     /\ ctxCalls' = IF r.status = "ASSERT" THEN issued
                                    ELSE issued \o dtorCalls(r.m_context)
                     /\ cudaContext' = IF r.status = "ASSERT" THEN r.m_context ELSE 0
    /\ UNCHANGED <<assertsEnabled, devices, out, initCount, inputVars, module>>
    /\ UNCHANGED <<target, devMem, freed, hostData, launches, kernelRunning>>

\* findKernelDescIndex and cuModuleLoadData, lines 524-533
LoadModule ==
    /\ pc = "load"
    /\ \E ok \in BOOLEAN :
         IF ~hasKernel THEN Finish("FAIL") /\ UNCHANGED <<module, calls>>
         ELSE /\ calls' = Append(calls, Call("cuModuleLoadData", 0, 0, 0, ok))
              /\ module' = IF ok THEN 1 ELSE 0
              /\ Step(IF ok THEN "OK" ELSE SLANG_CUDA_RETURN_ON_FAIL(assertsEnabled),
                      "entry")
    /\ UNCHANGED <<assertsEnabled, devices, out, cuInitRes, initCount, inputVars>>
    /\ UNCHANGED <<target, devMem, freed, hostData, launches, kernelRunning>>

\* SLANG_ASSERT(entryPointCount == 1), line 243
entryPointAssert(count) == count = 1

\* lines 241-251: what resolving the entry point ends with.  With no entry point
\* and no assertion, getEntryPointByIndex(0) is out of range and the name read
\* through it is undefined: the call crashes or cuModuleGetFunction fails.
entryPointOutcomes(count, asserts) ==
    IF asserts /\ ~entryPointAssert(count) THEN {"ASSERT"}
    ELSE IF count = 0 THEN {"CRASH", SLANG_CUDA_RETURN_ON_FAIL(asserts)}
    ELSE {"OK", SLANG_CUDA_RETURN_ON_FAIL(asserts)}

ResolveEntryPoint ==
    /\ pc = "entry"
    /\ \E status \in entryPointOutcomes(entryPointCount, assertsEnabled) :
         /\ calls' = IF status \in {"ASSERT", "CRASH"} /\ entryPointCount # 1 THEN calls
                     ELSE Append(calls, Call("cuModuleGetFunction", 0, 0, 0, status = "OK"))
         /\ Step(status, "setup")
    /\ UNCHANGED <<assertsEnabled, devices, out, cuInitRes, initCount, inputVars, module>>
    /\ UNCHANGED <<target, devMem, freed, hostData, launches, kernelRunning>>

\* bindRoot.init, addDefaultValues, addBindSetValues, getValueBuffers (lines 259-269):
\* addBindSetValues may fail (SLANG_RETURN_ON_FAIL, no assertion)
BindSetup ==
    /\ pc = "setup"
    /\ \E ok \in BOOLEAN : Step(IF ok THEN "OK" ELSE "FAIL", "alloc")
    /\ UNCHANGED <<assertsEnabled, devices, out, cuInitRes, initCount, inputVars, module, memVars>>

\* the Values whose cudaMalloc may fail
allocating(values) == {v \in 1..Len(values) : allocates(values[v])}

\* lines 273-357
Allocate ==
    /\ pc = "alloc"
    /\ \E failAt \in {0} \cup allocating(valuesOf(params)), garbage \in GarbageBytes :
         LET r == allocLoop(valuesOf(params), 1, target, devMem, calls, failAt, garbage,
                            assertsEnabled)
         IN  /\ target' = r.target
             /\ devMem' = r.devMem
             /\ calls' = r.calls
             /\ Step(r.status, "bind")
    /\ UNCHANGED <<assertsEnabled, devices, out, cuInitRes, initCount, inputVars, module>>
    /\ UNCHANGED <<freed, hostData, launches, kernelRunning>>

\* lines 361-422
Bind ==
    /\ pc = "bind"
    /\ LET r == bindLoop(bindingsOf(params), 1, hostData, target, calls)
       IN  /\ hostData' = r.hostData
           /\ calls' = r.calls
    /\ Continue("upload")
    /\ UNCHANGED <<assertsEnabled, devices, out, cuInitRes, initCount, inputVars, module>>
    /\ UNCHANGED <<target, devMem, freed, launches, kernelRunning>>

\* lines 425-436
Upload ==
    /\ pc = "upload"
    /\ \E failAt \in {0} \cup {v \in 1..Len(target) : uploads(valuesOf(params), v, target)} :
         LET r == uploadLoop(valuesOf(params), 1, hostData, target, devMem, calls, failAt,
                             assertsEnabled)
         IN  /\ devMem' = r.devMem
             /\ calls' = r.calls
             /\ Step(r.status, "launch")
    /\ UNCHANGED <<assertsEnabled, devices, out, cuInitRes, initCount, inputVars, module>>
    /\ UNCHANGED <<target, freed, hostData, launches, kernelRunning>>

\* lines 440-471: two cuFuncGetAttribute queries, then cuLaunchKernel
Launch ==
    /\ pc = "launch"
    /\ \E failed \in {"none", "cuFuncGetAttribute", "cuLaunchKernel"} :
         IF failed = "cuFuncGetAttribute"
         THEN /\ calls' = Append(calls, Call("cuFuncGetAttribute", 0, 0, 0, FALSE))
              /\ UNCHANGED <<launches, kernelRunning>>
              /\ Finish(SLANG_CUDA_RETURN_ON_FAIL(assertsEnabled))
         ELSE /\ calls' = calls \o <<Call("cuFuncGetAttribute", 0, 0, 0, TRUE),
                                     Call("cuFuncGetAttribute", 0, 0, 0, TRUE),
                                     Call("cuLaunchKernel", 0, 0, 0, failed = "none")>>
              /\ launches' = Append(launches,
                                    launchOf(threadGroupSize, target, failed = "none"))
              /\ kernelRunning' = (failed = "none")
              /\ Step(IF failed = "none" THEN "OK"
                      ELSE SLANG_CUDA_RETURN_ON_FAIL(assertsEnabled), "sync")
    /\ UNCHANGED <<assertsEnabled, devices, out, cuInitRes, initCount, inputVars, module>>
    /\ UNCHANGED <<target, devMem, freed, hostData>>

\* the device runs the kernel launched last to its end
KernelRun ==
    /\ kernelRunning
    /\ kernelRunning' = FALSE
    /\ devMem' = copyKernel(launches[Len(launches)], devMem)
    /\ UNCHANGED <<devVars, inputVars, pc, result, cudaContext, module>>
    /\ UNCHANGED <<target, freed, hostData, calls, launches>>

\* no wait at all: the call goes on while the kernel runs
waitOver_noWait(running) == TRUE

\* whether the wait of lines 473-481 is over: it lasts while a kernel runs
waitOver(running) == ~running

\* lines 473-481: the wait for the kernel, which may report an error
Synchronize ==
    /\ pc = "sync"
    /\ waitOver(kernelRunning)
    /\ \E ok \in BOOLEAN :
         /\ calls' = Append(calls, Call(syncCall(stream), 0, 0, 0, ok))
         /\ Step(IF ok THEN "OK" ELSE SLANG_CUDA_RETURN_ON_FAIL(assertsEnabled),
                 "download")
    /\ UNCHANGED <<assertsEnabled, devices, out, cuInitRes, initCount, inputVars, module>>
    /\ UNCHANGED <<target, devMem, freed, hostData, launches, kernelRunning>>

\* lines 486-505
Download ==
    /\ pc = "download"
    /\ \E failAt \in {0} \cup {i \in 1..Len(params) :
                                 downloads(valuesOf(params), entriesOf(params)[i], target)} :
         LET r == downloadLoop(valuesOf(params), entriesOf(params), 1, hostData, target,
                               devMem, calls, failAt, assertsEnabled)
         IN  /\ hostData' = r.hostData
             /\ calls' = r.calls
             /\ Step(r.status, "release")
    /\ UNCHANGED <<assertsEnabled, devices, out, cuInitRes, initCount, inputVars, module>>
    /\ UNCHANGED <<target, devMem, freed, launches, kernelRunning>>

\* lines 507-514: no stream to destroy, then bindSet.releaseValueTargets()
Release ==
    /\ pc = "release"
    /\ \E failAt \in {0} \cup {v \in 1..Len(target) : target[v] # 0} :
         LET r == releaseLoop(1, target, freed,
                              Append(calls, Call("releaseValueTargets", 0, 0, 0, TRUE)),
                              failAt, assertsEnabled)
         IN  /\ target' = r.target
             /\ freed' = r.freed
             /\ calls' = r.calls
             /\ Step(r.status, "unload")
    /\ UNCHANGED <<assertsEnabled, devices, out, cuInitRes, initCount, inputVars, module>>
    /\ UNCHANGED <<devMem, hostData, launches, kernelRunning>>

\* cuModuleUnload and return SLANG_OK, lines 537-539
Unload ==
    /\ pc = "unload"
    /\ \E ok \in BOOLEAN :
         /\ calls' = Append(calls, Call("cuModuleUnload", 0, 0, 0, ok))
         /\ module' = IF ok THEN 0 ELSE module
         /\ Finish(IF ok THEN "OK" ELSE SLANG_CUDA_RETURN_ON_FAIL(assertsEnabled))
    /\ UNCHANGED <<assertsEnabled, devices, out, cuInitRes, initCount, inputVars>>
    /\ UNCHANGED <<target, devMem, freed, hostData, launches, kernelRunning>>

\* the devices execute() may find
ExecDevices == {<< >>, <<Device("Default", <<7, 5>>, 1, 1)>>}

InitWith(layouts) ==
    /\ assertsEnabled \in BOOLEAN
    /\ devices \in ExecDevices
    /\ out = NoCall
    /\ live = {}
    /\ cuInitRes = "none"
    /\ ctxCalls = << >>
    /\ initCount = 0
    /\ entryPointCount \in 0..MaxEntryPoints
    /\ threadGroupSize \in ThreadGroupSizes
    /\ hasKernel \in BOOLEAN
    /\ params \in layouts
    /\ pc = "idle"
    /\ result = "none"
    /\ cudaContext = 0
    /\ module = 0
    /\ target = [v \in 1..(Len(params) + 2) |-> 0]
    /\ devMem = << >>
    /\ freed = {}
    /\ hostData = hostDataOf(params)
    /\ calls = << >>
    /\ launches = << >>
    /\ kernelRunning = FALSE

Init == InitWith(Layouts)

Next ==
    \/ ExecInit
    \/ LoadModule
    \/ ResolveEntryPoint
    \/ BindSetup
    \/ Allocate
    \/ Bind
    \/ Upload
    \/ Launch
    \/ KernelRun
    \/ Synchronize
    \/ Download
    \/ Release
    \/ Unload

Spec == Init /\ [][Next]_vars

(***************************************************************************)
(* A process that calls canCreateDevice() before or after its execute():   *)
(* the calls of one thread follow each other, and a failed assertion or a  *)
(* crash ends the process.                                                 *)
(***************************************************************************)
aborted == result \in {"ASSERT", "CRASH"} \/ out.status = "ASSERT"

ProbeBetweenCalls ==
    /\ pc \in {"idle", "done"}
    /\ ~aborted
    /\ CanCreateDevice

ExecuteStep ==
    /\ ~aborted
    /\ Next

NextCalls == ExecuteStep \/ ProbeBetweenCalls

\* the test layouts of the process that makes both calls
CallLayouts ==
    {<<Param("Resource", "SLANG_STRUCTURED_BUFFER", 32, TRUE, TRUE)>>,
     <<Param("ConstantBuffer", "none", 4, TRUE, FALSE),
       Param("Resource", "SLANG_TEXTURE_2D", 4, TRUE, TRUE)>>}

InitCalls ==
    /\ InitWith(CallLayouts)
    /\ threadGroupSize = <<8, 1, 1>>

\* execute() on the layouts of the binding cases, with its one entry point
InitBind ==
    /\ InitWith(BindLayouts)
    /\ entryPointCount = 1
    /\ threadGroupSize = <<8, 1, 1>>

SpecBind == InitBind /\ [][Next]_vars

SpecCalls == InitCalls /\ [][NextCalls]_vars

(***************************************************************************)
(* execute(): the claims.                                                  *)
(***************************************************************************)
\* the places in calls of the calls of fn
callsOf(fn) == {i \in 1..Len(calls) : calls[i].fn = fn}

\* the successful calls of fn for Value v
callsFor(fn, v) == {i \in callsOf(fn) : calls[i].value = v /\ calls[i].ok}

\* the kinds the spec gives device memory to; no type layout counts as ConstantBuffer
isBufferKind(value) ==
    \/ ~value.hasType
    \/ value.kind \in {"ConstantBuffer", "ParameterBlock"}
    \/ value.kind = "Resource"
       /\ value.shape \in {"SLANG_BYTE_ADDRESS_BUFFER", "SLANG_STRUCTURED_BUFFER"}

\* execute() has returned a status
returned == pc = "done" /\ result \in {"OK", "FAIL"}

\* C1: with an entry-point count other than 1, execute() does not succeed (it
\* ends with a failure) and no cudaMalloc is issued at any point of the call.
C1_FailsBeforeAllocation ==
    entryPointCount # 1 => (callsOf("cudaMalloc") = {} /\ result # "OK")

\* the allocation stage is over and the targets are not released yet
afterAllocation == pc \in {"bind", "upload", "launch", "sync", "download", "release"}

\* C6: after the allocation stage every Value of kind ConstantBuffer or
\* ParameterBlock, or Resource of shape ByteAddressBuffer or StructuredBuffer, or
\* without a type layout, owns exactly one device allocation, of the Value's
\* byte size, and no two Values own the same allocation.
C6_OneAllocationOfByteSize ==
    afterAllocation
    => \A v \in 1..Len(valuesOf(params)) :
         isBufferKind(valuesOf(params)[v])
         => /\ target[v] \in 1..Len(devMem)
            /\ Len(devMem[target[v]]) = valuesOf(params)[v].sizeInBytes
            /\ Cardinality(callsFor("cudaMalloc", v)) = 1
            /\ \A i \in callsFor("cudaMalloc", v) :
                 /\ calls[i].size = valuesOf(params)[v].sizeInBytes
                 /\ calls[i].ptr = target[v]
            /\ \A w \in 1..Len(target) : (w # v /\ target[w] # 0) => target[w] # target[v]

\* a StructuredBuffer of 32 bytes and a ParameterBlock of 4 bytes, and the two
\* untyped parameter blocks, own their allocations
C6_Witness ==
    /\ pc = "bind"
    /\ Len(params) = 2
    /\ params[1].shape = "SLANG_STRUCTURED_BUFFER"
    /\ params[2].kind = "ParameterBlock"
    /\ Len(devMem) = 4
    /\ Len(devMem[target[3]]) = 32
    /\ Len(devMem[target[4]]) = 4
    /\ Len(devMem[target[rootValue]]) = 16

\* the test of the round trip: an input of 32 bytes holding 0..31, an output of
\* 32 bytes, thread-group size (8,1,1)
identityTest ==
    /\ params = <<Param("Resource", "SLANG_STRUCTURED_BUFFER", 32, TRUE, FALSE),
                  Param("Resource", "SLANG_STRUCTURED_BUFFER", 32, TRUE, TRUE)>>
    /\ threadGroupSize = <<8, 1, 1>>

\* C7: with one input entry of 32 bytes holding 0..31, one output entry of 32
\* bytes and the copying kernel with thread-group size (8,1,1), when execute()
\* returns success the output's host buffer is byte-identical to the input's.
C7_IdentityRoundTrip ==
    (identityTest /\ pc = "done" /\ result = "OK")
    => (hostData[4] = hostData[3] /\ hostData[4] = [i \in 1..32 |-> i - 1])

C7_Witness ==
    /\ identityTest
    /\ entryPointCount = 1
    /\ pc = "done"
    /\ result = "OK"
    /\ hostData[4][32] = 31

\* entry i's copy back: one device-to-host copy of the Value's byte size from
\* the Value's allocation, issued after a successful wait that follows the launch
copiedBack(v) ==
    /\ Cardinality({j \in callsOf("cudaMemcpyDeviceToHost") : calls[j].value = v}) = 1
    /\ \A j \in callsOf("cudaMemcpyDeviceToHost") :
         calls[j].value = v
         => /\ calls[j].ok
            /\ calls[j].size = valuesOf(params)[v].sizeInBytes
            /\ \E a \in callsFor("cudaMalloc", v) : calls[a].ptr = calls[j].ptr
            /\ hostData[v] = devMem[calls[j].ptr]
            /\ \E k \in 1..(j - 1) :
                 /\ calls[k].fn \in {"cudaDeviceSynchronize", "cudaStreamSynchronize"}
                 /\ calls[k].ok
                 /\ \E l \in 1..(k - 1) : calls[l].fn = "cuLaunchKernel" /\ calls[l].ok

\* C8 as stated: when execute() returns success, every entry flagged as output
\* has had exactly its Value's byteSize bytes copied from the Value's device
\* allocation into its host buffer, after the wait that follows the launch.
C8_EveryOutputCopied ==
    (pc = "done" /\ result = "OK")
    => \A i \in 1..Len(params) :
         entriesOf(params)[i].isOutput => copiedBack(entriesOf(params)[i].buffer)

\* C8 as amended: when execute() returns success, every entry flagged as output
\* whose Value has host data and a device allocation has had exactly its Value's
\* byteSize bytes copied back, after the wait that follows the launch; an output
\* entry whose Value has no host data or no device allocation (a texture) is
\* skipped: no copy is issued for it.
C8_AllocatedOutputsCopied ==
    (pc = "done" /\ result = "OK")
    => \A i \in 1..Len(params) :
         LET v == entriesOf(params)[i].buffer
         IN  entriesOf(params)[i].isOutput
             => IF valuesOf(params)[v].hasData /\ isBufferKind(valuesOf(params)[v])
                THEN copiedBack(v)
                ELSE \A j \in callsOf("cudaMemcpyDeviceToHost") : calls[j].value # v

\* success with an output buffer copied back and an output texture skipped
C8_Witness ==
    /\ pc = "done"
    /\ result = "OK"
    /\ Len(params) = 2
    /\ params[1] = Param("Resource", "SLANG_STRUCTURED_BUFFER", 32, TRUE, TRUE)
    /\ params[2] = Param("Resource", "SLANG_TEXTURE_2D", 4, TRUE, TRUE)
    /\ Cardinality(callsOf("cudaMemcpyDeviceToHost")) = 1

\* the device pointer cudaMalloc returned for Value v, 0 when it has none
allocationOf(v) ==
    IF callsFor("cudaMalloc", v) = {} THEN 0
    ELSE calls[CHOOSE a \in callsFor("cudaMalloc", v) : TRUE].ptr

\* C9: every kernel launch uses grid (1,1,1), the entry point's thread-group
\* size as block, shared memory 0 and exactly the two arguments (entry-point
\* parameter block pointer, global parameter block pointer); at most one launch
\* is issued per execute() call.
C9_SingleBlockLaunch ==
    /\ Len(launches) <= 1
    /\ Cardinality(callsOf("cuLaunchKernel")) = Len(launches)
    /\ \A n \in 1..Len(launches) :
         /\ launches[n].gridDim = <<1, 1, 1>>
         /\ launches[n].blockDim = threadGroupSize
         /\ launches[n].sharedMemBytes = 0
         /\ launches[n].args = <<allocationOf(entryPointValue), allocationOf(rootValue)>>
         /\ launches[n].args[1] # launches[n].args[2]

C9_Witness ==
    /\ Len(launches) = 1
    /\ launches[1].ok
    /\ threadGroupSize = <<1, 2, 3>>
    /\ launches[1].blockDim = <<1, 2, 3>>
    /\ launches[1].args = <<2, 1>>

\* C10: a kernel launch that was enqueued is followed by a wait before execute()
\* ends and before any device-to-host copy: cudaStreamSynchronize with a stream,
\* else cudaDeviceSynchronize; no kernel runs during a copy back or once
\* execute() has ended.
C10_WaitAfterLaunch ==
    /\ pc \in {"download", "release", "unload", "done"} => ~kernelRunning
    /\ \A l \in callsOf("cuLaunchKernel") :
         (calls[l].ok /\ pc \in {"download", "release", "unload", "done"})
         => /\ l < Len(calls)
            /\ calls[l + 1].fn = (IF stream # 0 THEN "cudaStreamSynchronize"
                                  ELSE "cudaDeviceSynchronize")
    /\ \A j \in callsOf("cudaMemcpyDeviceToHost") :
         \E l \in callsOf("cuLaunchKernel") :
            /\ calls[l].ok
            /\ l + 1 < j
            /\ calls[l + 1].fn \in {"cudaStreamSynchronize", "cudaDeviceSynchronize"}

\* the kernel ran to its end, the wait reported an error and execute() returned
C10_Witness ==
    /\ returned
    /\ result = "FAIL"
    /\ Len(launches) = 1
    /\ launches[1].ok
    /\ ~kernelRunning
    /\ calls[Len(calls)] = Call("cudaDeviceSynchronize", 0, 0, 0, FALSE)

(***************************************************************************)
(* execute() and then the teardown of the caller's Context: its BindSet    *)
(* drops the target of every Value, and ~CUDAResource (lines 39-45) frees  *)
(* the device memory of each.  pc is "torn" once the Context is gone.      *)
(***************************************************************************)
TeardownContext ==
    /\ pc = "done"
    /\ result \in {"OK", "FAIL"}
    /\ \E failAt \in {0} \cup {v \in 1..Len(target) : target[v] # 0} :
         LET r == releaseLoop(1, target, freed, calls, failAt, assertsEnabled)
         IN  /\ target' = r.target
             /\ freed' = r.freed
             /\ calls' = r.calls
             /\ result' = IF r.status = "ASSERT" THEN "ASSERT" ELSE result
    /\ pc' = "torn"
    /\ UNCHANGED <<devVars, inputVars, cudaContext, module>>
    /\ UNCHANGED <<devMem, hostData, launches, kernelRunning>>

NextTeardown == Next \/ TeardownContext

SpecTeardown == InitCalls /\ [][NextTeardown]_vars

(***************************************************************************)
(* A ScopeCUDAContext used on its own: any init calls, of either overload,  *)
(* then its destructor.  cudaContext is its m_context, pc is "idle" until  *)
(* it is destroyed, and a failed assertion ends the process.               *)
(***************************************************************************)
\* the driver calls of ScopeCUDAContext::init(flags, device) that may fail;
\* cuCtxCreate fails for a device that is not there
initDeviceFaults(devs, device) ==
    IF device < Len(devs) THEN {NoFault, Fault("cuInit"), Fault("cuCtxCreate")}
    ELSE {Fault("cuInit"), Fault("cuCtxCreate")}

\* what an init call leaves
Inited(r, fault) ==
    /\ out' = [NoCall EXCEPT !.op = "init", !.status = r.status, !.device = r.device,
                             !.fault = fault]
    /\ cudaContext' = r.m_context
    /\ live' = r.live
    /\ cuInitRes' = cuInitAfter(cuInitRes, fault)
    /\ ctxCalls' = ctxCalls \o cuInitCalls(cuInitRes, fault) \o r.ctxCalls
    /\ initCount' = initCount + 1
    /\ UNCHANGED <<assertsEnabled, devices, inputVars, pc, result, module, memVars>>

InitFlags ==
    /\ pc = "idle"
    /\ out.status # "ASSERT"
    /\ initCount < MaxInits
    /\ \E fault \in faultsWith(initFaults(devices), cuInitRes) :
         Inited(ScopeCUDAContext_init(cudaContext, live, devices, fault, assertsEnabled),
                fault)

InitFlagsDevice ==
    /\ pc = "idle"
    /\ out.status # "ASSERT"
    /\ initCount < MaxInits
    /\ \E device \in 0..(MaxDevices - 1) :
         \E fault \in faultsWith(initDeviceFaults(devices, device), cuInitRes) :
            Inited(ScopeCUDAContext_initDevice(cudaContext, live, device, fault,
                                               assertsEnabled), fault)

\* ~ScopeCUDAContext()
Teardown ==
    /\ pc = "idle"
    /\ out.status # "ASSERT"
    /\ pc' = "done"
    /\ live' = ScopeCUDAContext_dtor(cudaContext, live)
    /\ ctxCalls' = ctxCalls \o dtorCalls(cudaContext)
    /\ cudaContext' = 0
    /\ UNCHANGED <<assertsEnabled, devices, out, cuInitRes, initCount>>
    /\ UNCHANGED <<inputVars, result, module, memVars>>

InitCtx ==
    /\ assertsEnabled \in BOOLEAN
    /\ devices \in ExecDevices
    /\ out = NoCall
    /\ live = {}
    /\ cuInitRes = "none"
    /\ ctxCalls = << >>
    /\ initCount = 0
    /\ ExecIdle

NextCtx == InitFlags \/ InitFlagsDevice \/ Teardown

SpecCtx == InitCtx /\ [][NextCtx]_vars

(***************************************************************************)
(* The lifetime of the device context, of the module and of the device     *)
(* allocations: the claims.                                                *)
(***************************************************************************)
\* the contexts cuCtxCreate has returned
created == {ctxCalls[i].ctx : i \in {j \in 1..Len(ctxCalls) : ctxCalls[j].fn = "cuCtxCreate"}} \ {0}

\* the successful calls of fn on context c among the first n of ctxCalls
ctxCount(fn, c, n) ==
    Cardinality({i \in 1..n : ctxCalls[i].fn = fn /\ ctxCalls[i].ctx = c /\ ctxCalls[i].ok})

\* whether context c is held after the first n calls: created more than destroyed
held(c, n) == ctxCount("cuCtxCreate", c, n) - ctxCount("cuCtxDestroy", c, n)

\* no context is destroyed that is not held, none is created while it is held
wellPaired == \A c \in created : \A n \in 0..Len(ctxCalls) : held(c, n) \in {0, 1}

\* every creation has had its one destruction
allDestroyedOnce ==
    /\ wellPaired
    /\ \A c \in created : held(c, Len(ctxCalls)) = 0

\* C11: once execute() and canCreateDevice() have returned, with success or with
\* a failure of any stage, every context created during the call has been
\* destroyed exactly once, so no context created by the call is live.
C11_ContextsDestroyedOnReturn ==
    (pc \in {"idle", "done"} /\ ~aborted)
    => (live = {} /\ cudaContext = 0 /\ allDestroyedOnce)

\* the probe succeeded and execute() failed after its allocations: each created
\* a context and destroyed it
C11_Witness ==
    /\ out.op = "probe"
    /\ out.ret = TRUE
    /\ pc = "done"
    /\ result = "FAIL"
    /\ callsOf("cudaMalloc") # {}
    /\ Cardinality({i \in 1..Len(ctxCalls) : ctxCalls[i].fn = "cuCtxCreate" /\ ctxCalls[i].ok}) = 2
    /\ Cardinality({i \in 1..Len(ctxCalls) : ctxCalls[i].fn = "cuCtxDestroy"}) = 2
    /\ live = {}

\* C12: every module that execute() has loaded is unloaded (cuModuleUnload) when
\* execute() has returned, with success or with a failure.
C12_ModuleUnloadedOnReturn == returned => module = 0

\* the Values that were given a device allocation in this call
allocated == {v \in 1..Len(target) : callsFor("cudaMalloc", v) # {}}

\* the Values that were given an allocation still own it: it was not freed
stillOwned == \A v \in allocated : target[v] = allocationOf(v) /\ target[v] \notin freed

\* bindSet.releaseValueTargets() ran once, after every device-to-host copy, and
\* left no Value a target
releasedOnce ==
    /\ Cardinality(callsOf("releaseValueTargets")) = 1
    /\ \A r \in callsOf("releaseValueTargets") :
         \A d \in callsOf("cudaMemcpyDeviceToHost") : d < r
    /\ \A v \in 1..Len(target) : target[v] = 0

\* execute() failed in its last step, cuModuleUnload (line 537)
unloadFailed ==
    calls # << >> /\ calls[Len(calls)] = Call("cuModuleUnload", 0, 0, 0, FALSE)

\* C13 as stated: releaseValueTargets runs exactly once in an execute() that
\* succeeds, after the last download, and not at all in an execute() that
\* fails: after a failure the Values still own the allocations they were given.
C13_ReleaseIffSuccess ==
    /\ (returned /\ result = "OK") => releasedOnce
    /\ (returned /\ result = "FAIL")
       => (callsOf("releaseValueTargets") = {} /\ stillOwned)

\* C13 as amended: releaseValueTargets runs exactly once, after the last
\* download, in an execute() that succeeds and in one whose only failure is that
\* of cuModuleUnload, which comes after the release; it does not run in an
\* execute() that fails at an earlier step, where the Values still own the
\* allocations they were given when execute() returns.
C13_ReleaseUnlessEarlierFailure ==
    /\ Cardinality(callsOf("releaseValueTargets")) <= 1
    /\ (returned /\ (result = "OK" \/ unloadFailed)) => releasedOnce
    /\ (returned /\ result = "FAIL" /\ ~unloadFailed)
       => (callsOf("releaseValueTargets") = {} /\ stillOwned)

\* execute() has returned a failure of the launch: three Values keep the
\* allocations they were given
C13_Witness ==
    /\ returned
    /\ result = "FAIL"
    /\ launches # << >>
    /\ calls[Len(calls)] = Call("cuLaunchKernel", 0, 0, 0, FALSE)
    /\ Cardinality(allocated) = 3
    /\ \A v \in allocated : target[v] # 0
    /\ freed = {}

\* the calls of execute() that reported an error and whose result the code
\* checks with a return: all but cudaFree, which only asserts (line 28)
failedCalls == {i \in 1..Len(calls) : ~calls[i].ok /\ calls[i].fn # "cudaFree"}

\* C14 as stated: as soon as a driver call of execute() reports an error,
\* execute() returns the generic failure status and issues no further driver
\* call: none of a later stage, and no retry.
C14_FailFastReturnsFailure ==
    \A i \in failedCalls : i = Len(calls) /\ pc = "done" /\ result = "FAIL"

\* C14 as amended: as soon as a driver call of execute() reports an error,
\* execute() ends and issues no further driver call, none of a later stage and
\* no retry; it returns the generic failure status when assertions are compiled
\* out or the call is cuCtxCreate, and otherwise the assertion of
\* SLANG_CUDA_RETURN_ON_FAIL fails and no status is returned.
C14_FailFastReturnsOrAsserts ==
    \A i \in failedCalls :
        /\ i = Len(calls)
        /\ pc = "done"
        /\ result = (IF assertsEnabled /\ calls[i].fn # "cuCtxCreate" THEN "ASSERT"
                     ELSE "FAIL")

\* an upload reported an error after three allocations and one upload: execute()
\* returned the failure, and nothing was launched
C14_Witness ==
    /\ returned
    /\ result = "FAIL"
    /\ Cardinality(callsOf("cudaMalloc")) = 3
    /\ Cardinality(callsOf("cudaMemcpyHostToDevice")) = 2
    /\ calls[Len(calls)].fn = "cudaMemcpyHostToDevice"
    /\ ~calls[Len(calls)].ok
    /\ launches = << >>

(***************************************************************************)
(* The stages of _compute: the claims.                                     *)
(***************************************************************************)
\* the upload loop has run to its end
uploadOver ==
    \/ pc \in {"launch", "sync", "download", "release", "unload"}
    \/ pc = "done" /\ callsOf("cuFuncGetAttribute") # {}

\* the binding locations the binding loop patches
patched == {l \in 1..Len(params) : writesSlot(bindingsOf(params)[l])}

\* C15: the stages come in the order allocate-all, bind-all, upload-all, launch:
\* every host-to-device copy copies exactly the Value's byteSize bytes to the
\* Value's allocation, comes after every allocation and every patch of a binding
\* location and before the launch, and once the upload stage is over, one has
\* been issued for every Value with host data and a device allocation.
C15_UploadBetweenBindAndLaunch ==
    /\ \A u \in callsOf("cudaMemcpyHostToDevice") :
         /\ calls[u].size = valuesOf(params)[calls[u].value].sizeInBytes
         /\ valuesOf(params)[calls[u].value].hasData
         /\ calls[u].ptr = allocationOf(calls[u].value)
         /\ calls[u].ptr # 0
         /\ \A a \in callsOf("cudaMalloc") : a < u
         /\ \A b \in callsOf("bind") : b < u
         /\ Cardinality(callsOf("bind")) = Cardinality(patched)
         /\ \A l \in callsOf("cuLaunchKernel") : u < l
    /\ \A a \in callsOf("cudaMalloc") : \A b \in callsOf("bind") : a < b
    /\ uploadOver
       => \A v \in 1..Len(valuesOf(params)) :
            (valuesOf(params)[v].hasData /\ v \in allocated)
            => /\ Cardinality({u \in callsOf("cudaMemcpyHostToDevice") :
                                 calls[u].value = v /\ calls[u].ok}) = 1
               /\ pc = "launch" => devMem[allocationOf(v)] = hostData[v]

\* a launch after four uploads, of 16, 8, 32 and 4 bytes, two patches and four
\* allocations
C15_Witness ==
    /\ Cardinality(callsOf("cuLaunchKernel")) = 1
    /\ Cardinality(callsOf("cudaMemcpyHostToDevice")) = 4
    /\ {calls[u].size : u \in callsOf("cudaMemcpyHostToDevice")} = {16, 8, 32, 4}
    /\ Cardinality(callsOf("bind")) = 2
    /\ Cardinality(callsOf("cudaMalloc")) = 4

\* the binding loop has run and the parameter blocks are as it left them
afterBinding == pc \in {"upload", "launch", "sync", "download", "release", "unload"}

\* the 8 bytes of binding location l, in the block that holds it
slotBytes(host, l) ==
    SubSeq(host[bindingsOf(params)[l].holder], bindingsOf(params)[l].offset + 1,
           bindingsOf(params)[l].offset + 8)

\* location l is of a kind the spec has patched whatever its Value is
isPointerKind(l) ==
    \/ bindingsOf(params)[l].kind \in {"ConstantBuffer", "ParameterBlock"}
    \/ /\ bindingsOf(params)[l].kind = "Resource"
       /\ bindingsOf(params)[l].shape
            \in {"SLANG_BYTE_ADDRESS_BUFFER", "SLANG_STRUCTURED_BUFFER"}

\* location l is an unsized array with a Value and a slot
isOpenArray(l) ==
    /\ bindingsOf(params)[l].kind = "Array"
    /\ bindingsOf(params)[l].elementCount = 0
    /\ bindingsOf(params)[l].value # 0
    /\ bindingsOf(params)[l].hasSlot

\* the device pointer of the Value of location l, null without Value or allocation
pointerOf(l) ==
    IF bindingsOf(params)[l].value = 0 THEN 0
    ELSE allocationOf(bindingsOf(params)[l].value)

\* C16: after the binding stage the slot of every location of kind
\* ConstantBuffer, ParameterBlock or Resource of shape ByteAddressBuffer or
\* StructuredBuffer holds the device pointer of its Value, null when the Value
\* is absent or has no allocation; the slot of an unsized array that has a
\* Value and a slot holds the device pointer of its Value.
C16_SlotsHoldDevicePointers ==
    afterBinding
    => \A l \in 1..Len(params) :
         (isPointerKind(l) \/ isOpenArray(l))
         => slotBytes(hostData, l) = pointerBytes(pointerOf(l))

\* an unsized array whose Value owns an allocation, and a ParameterBlock
\* location without Value: the pointer in the first slot, null in the second
C16_Witness ==
    /\ pc = "upload"
    /\ params = <<ArrayParam(0, FALSE, TRUE, TRUE),
                  Unbound(Param("ParameterBlock", "none", 4, TRUE, FALSE))>>
    /\ target[3] # 0
    /\ slotBytes(hostData, 1) = pointerBytes(target[3])
    /\ slotBytes(hostData, 2) = pointerBytes(0)

\* C17: the bytes of the parameter block at a location that is neither of kind
\* ConstantBuffer, ParameterBlock, Resource of shape ByteAddressBuffer or
\* StructuredBuffer, nor an unsized array with a Value and a slot, are the same
\* after binding as before: those the upstream layout step left.
C17_OtherKindsUntouched ==
    \A l \in 1..Len(params) :
        ~(isPointerKind(l) \/ isOpenArray(l))
        => slotBytes(hostData, l) = slotBytes(hostDataOf(params), l)

\* binding is over for a vector and an unsized array without slot: the root
\* block is as it was, and no slot was written
C17_Witness ==
    /\ pc = "upload"
    /\ params = <<Param("Vector", "none", 4, TRUE, FALSE),
                  ArrayParam(0, FALSE, FALSE, TRUE)>>
    /\ hostData[rootValue] = fill(16, 170)
    /\ callsOf("bind") = {}

\* the Values with a type layout whose kind is none the spec gives memory to
unsupported == {v \in 1..Len(valuesOf(params)) : ~isBufferKind(valuesOf(params)[v])}

\* C18: for a Value whose kind is neither ConstantBuffer nor ParameterBlock nor
\* Resource of shape ByteAddressBuffer or StructuredBuffer (every texture shape
\* among them) no device allocation is issued, its device pointer is null, and
\* no upload or download copy is issued for it at any point of execute().
C18_NoMemoryForOtherKinds ==
    \A v \in unsupported :
        /\ getCUDAData(v, target) = 0
        /\ \A i \in 1..Len(calls) :
             calls[i].fn \in {"cudaMalloc", "cudaMemcpyHostToDevice",
                              "cudaMemcpyDeviceToHost", "cudaFree"}
             => calls[i].value # v

\* execute() succeeded on an output 2D texture with host data and a cube
\* texture: the two untyped parameter blocks alone were allocated and uploaded
C18_Witness ==
    /\ pc = "done"
    /\ result = "OK"
    /\ params = <<Param("Resource", "SLANG_TEXTURE_2D", 4, TRUE, TRUE),
                  Param("Resource", "SLANG_TEXTURE_CUBE", 4, TRUE, FALSE)>>
    /\ unsupported = {3, 4}
    /\ Cardinality(callsOf("cudaMalloc")) = 2
    /\ Cardinality(callsOf("cudaMemcpyHostToDevice")) = 2
    /\ callsOf("cudaMemcpyDeviceToHost") = {}

\* the places in ctxCalls of the calls of fn
ctxCallsOf(fn) == {i \in 1..Len(ctxCalls) : ctxCalls[i].fn = fn}

\* C19: over any sequence of init calls on one ScopeCUDAContext, of either
\* overload, succeeding or failing: cuInit is called at most once and its
\* result is what every later call gets, the manager holds at most one live
\* context, no context is created while an earlier one is not destroyed, and
\* once the manager is destroyed every context created has been destroyed
\* exactly once.
C19_OneContextOneInit ==
    /\ Cardinality(ctxCallsOf("cuInit")) <= 1
    /\ \A i \in ctxCallsOf("cuInit") :
         cuInitRes = (IF ctxCalls[i].ok THEN "OK" ELSE "ERR")
    /\ (out.op = "init" /\ cuInitRes = "ERR") => out.status \in {"FAIL", "ASSERT"}
    /\ live = (IF cudaContext # 0 THEN {cudaContext} ELSE {})
    /\ wellPaired
    /\ \A n \in ctxCallsOf("cuCtxCreate") : \A c \in created : held(c, n - 1) = 0
    /\ pc = "done" => (allDestroyedOnce /\ live = {})

\* three init calls, the first and the last creating a context and the second
\* failing in cuCtxCreate, then the destructor: cuInit once, two contexts
\* created and two destroyed
C19_Witness ==
    /\ pc = "done"
    /\ initCount = 3
    /\ Cardinality(ctxCallsOf("cuInit")) = 1
    /\ Cardinality({i \in ctxCallsOf("cuCtxCreate") : ctxCalls[i].ok}) = 2
    /\ Cardinality({i \in ctxCallsOf("cuCtxCreate") : ~ctxCalls[i].ok}) = 1
    /\ Cardinality(ctxCallsOf("cuCtxDestroy")) = 2
    /\ live = {}

(***************************************************************************)
(* The host data execute() writes: the claims.                             *)
(***************************************************************************)
\* byte b of the host data of Value v lies in the slot of a patched location
inPatchedSlot(v, b) ==
    \E l \in patched :
        /\ bindingsOf(params)[l].holder = v
        /\ b > bindingsOf(params)[l].offset
        /\ b <= bindingsOf(params)[l].offset + 8

\* Value v is the buffer of an entry flagged as output
isOutputBuffer(v) ==
    \E i \in 1..Len(params) :
        entriesOf(params)[i].buffer = v /\ entriesOf(params)[i].isOutput

\* a device-to-host copy into the host data of Value v has been made
downloaded(v) == \E j \in callsOf("cudaMemcpyDeviceToHost") : calls[j].value = v /\ calls[j].ok

\* execute() failed and had not come to the download stage
failedBeforeDownload ==
    /\ pc = "done"
    /\ result # "OK"
    /\ callsOf("cudaMemcpyDeviceToHost") = {}
    /\ callsOf("releaseValueTargets") = {}

\* C20 as stated: execute() writes host buffers in the download stage only and
\* for output entries only: the host buffer of an entry not flagged as output is
\* unchanged on every path, and after a failure before the download stage no
\* host buffer at all is modified.
C20_HostWrittenByDownloadOnly ==
    /\ \A v \in 1..Len(hostData) :
         hostData[v] # hostDataOf(params)[v] => (isOutputBuffer(v) /\ downloaded(v))
    /\ \A i \in 1..Len(params) :
         ~entriesOf(params)[i].isOutput
         => hostData[entriesOf(params)[i].buffer]
              = hostDataOf(params)[entriesOf(params)[i].buffer]
    /\ failedBeforeDownload => hostData = hostDataOf(params)

\* C20 as amended: execute() writes host data in the binding stage and in the
\* download stage only: a byte of a Value's host data differs from what it was
\* at the call only if it lies in the slot of a binding location the binding
\* stage has patched, or the Value is the buffer of an output entry and its
\* copy back has been made; so after a failure before the download stage only
\* patched slots differ.
C20_HostWrittenByBindAndDownload ==
    /\ \A v \in 1..Len(hostData) :
         /\ Len(hostData[v]) = Len(hostDataOf(params)[v])
         /\ \A b \in 1..Len(hostData[v]) :
              hostData[v][b] # hostDataOf(params)[v][b]
              => \/ inPatchedSlot(v, b) /\ callsOf("bind") # {}
                 \/ isOutputBuffer(v) /\ downloaded(v)
    /\ failedBeforeDownload
       => \A v \in 1..Len(hostData) : \A b \in 1..Len(hostData[v]) :
            hostData[v][b] # hostDataOf(params)[v][b] => inPatchedSlot(v, b)

\* the launch failed for a parameter block with a buffer as its field: the
\* block's host data holds the buffer's device pointer, the output buffer's
\* host data is as it was
C20_Witness ==
    /\ returned
    /\ result = "FAIL"
    /\ launches # << >>
    /\ calls[Len(calls)] = Call("cuLaunchKernel", 0, 0, 0, FALSE)
    /\ params = <<Param("ParameterBlock", "none", 8, TRUE, FALSE),
                  Nested(Param("Resource", "SLANG_STRUCTURED_BUFFER", 4, TRUE, TRUE))>>
    /\ hostData[3] = pointerBytes(allocationOf(4))
    /\ hostData[3] # hostDataOf(params)[3]
    /\ hostData[4] = hostDataOf(params)[4]

(***************************************************************************)
(* The device allocations and the context they are made in: the claim.     *)
(***************************************************************************)
\* no device pointer is given to cudaFree twice
freedAtMostOnce ==
    \A i, j \in callsOf("cudaFree") : calls[i].ptr = calls[j].ptr => i = j

\* this step calls cudaFree
freeIssued ==
    /\ Len(calls') > Len(calls)
    /\ \E i \in (Len(calls) + 1)..Len(calls') : calls'[i].fn = "cudaFree"

\* the context execute() created is live
contextLive == cudaContext # 0 /\ cudaContext \in live

\* C21: every device allocation made during execute() is freed at most once,
\* and every cudaFree, whether releaseValueTargets or the later teardown of the
\* caller's Context triggers it, is called while the device context that
\* execute() created is live.
C21_FreedOnceInLiveContext ==
    [](freedAtMostOnce) /\ [][freeIssued => contextLive]_vars

=============================================================================
